---- MODULE Spec2Model ----
(***************************************************************************)
(* A state-machine model of the adaptive UI-action engine of blog-writer:  *)
(*   src/src/publisher/adaptive_publisher.py   (AdaptivePublisher)         *)
(*   src/src/publisher/naver_publisher.py      (NaverPublisher,            *)
(*                                              publish_with_rich_content) *)
(*   src/src/publisher/components/image_handler.py (ImageHandler)          *)
(*                                                                         *)
(* The page is the environment.  Every probe of the page (a                *)
(* Runtime.evaluate call) is answered by the environment: the element is   *)
(* there or it is not.  Every input event the program dispatches is        *)
(* appended to the log `events`, in dispatch order.                        *)
(*                                                                         *)
(* Korean literals of the source are written as ASCII tokens:              *)
(*   "K_image" (imiji), "K_material" (geulgam), "K_quote" (inyonggu),      *)
(*   "K_divider" (gubunseon), "K_bold" (boldeu), "K_publish" (balhaeng),   *)
(*   "K_button" (beoteun), "K_title", "K_body", "K_input", "K_area",       *)
(*   "K_click".                                                            *)
(***************************************************************************)
EXTENDS Integers, Sequences, FiniteSets, TLC

VARIABLES
    impl,        \* which code runs: "adaptive" | "rich" (publish), "naver" (typing)
    title,       \* publish(title, ...): the caller's title text
    sections,    \* publish(..., sections): the caller's section list
    pc,          \* position of the run in the entry point's body
    i,           \* index of the section being executed (the for loop's i, from 1)
    state,       \* the snapshot publish keeps in its local `state` (line 554)
    events,      \* every input event dispatched so far, tagged with its section
    result,      \* the PublishResult returned, or NoResult
    imgCount,    \* page: number of image components in the editor
    quirks,      \* environment: adverse answers given so far (see MaxQuirks)
    stages,      \* history: the stages of publish entered so far, in order
    attempted,   \* history: indices of the sections whose loop body was entered
    failed,      \* history: section-level failures seen so far, [sec, why]
    smartCalls,  \* history: one record per completed _smart_click call
    uploads,     \* history: one record per upload for which the file was supplied
    pubClicks,   \* history: one record per completed publish-click step
    aiCalls,     \* history: number of requests sent to the AI reasoning service
    urlRead,     \* history: the page URL the verification step read last
    text,        \* typing runs: the argument of _type_text
    typed,       \* typing runs: number of characters of `text` already typed
    response,    \* AI runs: the reasoning service's answer
    decision,    \* AI runs: what _get_ai_decision_text_only returned
    ret,         \* AI runs: what the resolution returned
    raised,      \* AI runs: TRUE when the resolution raised
    browser,     \* the publisher's _playwright and page, and the link to the browser
    closes,      \* history: one record per completed _close_browser call
    fault,       \* history: the call that raised in this run, if one did
    popups,      \* history: one record per completed popup dismissal call
    shown,       \* page: the editor popup on show ("none": none)
    attached,    \* BaseWatchdog._attached
    event_history,   \* BaseWatchdog._event_history
    dialog_history,  \* PopupWatchdog._dialog_history
    custom_handlers, \* PopupWatchdog._custom_handlers
    active_popup,    \* EditorPopupWatchdog._active_popup
    dialogs,     \* history: the dialog events delivered, with the override in force
    sent,        \* history: the Page.handleJavaScriptDialog commands sent
    screenshots, \* publish's local list `screenshots`
    listeners,   \* CDP session: handlers registered for Page.javascriptDialogOpening
    opened       \* history: one record per dialog event the page raised

progVars == <<impl, title, sections, pc, i, state, events, result>>
envVars == <<imgCount, quirks>>
histVars == <<stages, attempted, failed, smartCalls, uploads, pubClicks, aiCalls, urlRead>>
typeVars == <<text, typed>>
aiVars == <<response, decision, ret, raised>>

browserVars == <<browser, closes>>
runVars == <<fault, popups>>
dogVars == <<shown, attached, event_history, dialog_history, custom_handlers,
             active_popup, dialogs, sent>>
restVars == <<browserVars, runVars, dogVars>>
lifeVars == <<listeners, opened>>

vars == <<progVars, envVars, histVars, typeVars, aiVars, restVars, screenshots, lifeVars>>

(***************************************************************************)
(* Bounds of the model.                                                    *)
(***************************************************************************)
MaxLen == 3        \* longest text typed in a typing run
MaxSections == 2   \* longest section list of a publish run
MaxQuirks == 1     \* most adverse answers of the page per run

None == "None"     \* Python's None / an absent key, for a string-valued field
NoPt == <<"nopt">>  \* no coordinates
NoUrl == << >>      \* no URL
NL == "\n"
Chars == {"a", "b", NL}

(***************************************************************************)
(* Input events (Input.dispatchKeyEvent / Input.dispatchMouseEvent).       *)
(* `text` is None when the event's params carry no "text" key.             *)
(***************************************************************************)
KeyEvent(type, key, txt, mod) ==
    [dev |-> "key", type |-> type, key |-> key, text |-> txt, mod |-> mod, pt |-> NoPt]

MouseEvent(type, pt) ==
    [dev |-> "mouse", type |-> type, key |-> None, text |-> None, mod |-> 0, pt |-> pt]

\* AdaptivePublisher._click_at
_click_at(pt) ==
    << MouseEvent("mouseMoved", pt),
       MouseEvent("mousePressed", pt),
       MouseEvent("mouseReleased", pt) >>

(***************************************************************************)
(* _type_text: one iteration of `for char in text` dispatches keyDown,     *)
(* char, keyUp.  A newline is sent as the Enter key with text "\r".        *)
(***************************************************************************)
\* a plausible slip: the text is sent on keyDown as well
type_text_char_textOnKeyDown(c) ==
    IF c = NL
    THEN << KeyEvent("keyDown", "Enter", "\r", 0),
            KeyEvent("char", "Enter", "\r", 0),
            KeyEvent("keyUp", "Enter", None, 0) >>
    ELSE << KeyEvent("keyDown", c, c, 0),
            KeyEvent("char", c, c, 0),
            KeyEvent("keyUp", c, None, 0) >>

\* AdaptivePublisher._type_text, body of the loop
_type_text_char(c) ==
    IF c = NL
    THEN << KeyEvent("keyDown", "Enter", None, 0),
            KeyEvent("char", "Enter", "\r", 0),
            KeyEvent("keyUp", "Enter", None, 0) >>
    ELSE << KeyEvent("keyDown", c, None, 0),
            KeyEvent("char", c, c, 0),
            KeyEvent("keyUp", c, None, 0) >>

\* NaverPublisher._type_text, body of the loop
Naver_type_text_char(c) ==
    IF c = NL
    THEN << KeyEvent("keyDown", "Enter", None, 0),
            KeyEvent("char", "Enter", "\r", 0),
            KeyEvent("keyUp", "Enter", None, 0) >>
    ELSE << KeyEvent("keyDown", c, None, 0),
            KeyEvent("char", c, c, 0),
            KeyEvent("keyUp", c, None, 0) >>

RECURSIVE _type_text(_)
\* AdaptivePublisher._type_text: the events of the whole call
_type_text(t) ==
    IF t = << >> THEN << >> ELSE _type_text_char(Head(t)) \o _type_text(Tail(t))

RECURSIVE Naver_type_text(_)
\* NaverPublisher._type_text: the events of the whole call
Naver_type_text(t) ==
    IF t = << >> THEN << >> ELSE Naver_type_text_char(Head(t)) \o Naver_type_text(Tail(t))

\* the events `evs`, logged as dispatched while section s was executed
\* (s = 0: outside the section loop)
Tag(evs, s) == [k \in 1..Len(evs) |-> [ev |-> evs[k], sec |-> s]]

RECURSIVE SeqsUpTo(_, _)
\* all sequences over S of length at most n
SeqsUpTo(S, n) ==
    IF n = 0 THEN { << >> }
    ELSE LET shorter == SeqsUpTo(S, n - 1)
         IN  shorter \cup { Append(t, c) : t \in shorter, c \in S }

(***************************************************************************)
(* The page.  At(name) is the clickable centre the page reports for the    *)
(* element `name`; distinct elements have distinct centres.                *)
(***************************************************************************)
At(name) == <<"at", name>>

\* the toolbar controls _get_dom_snapshot looks for (toolButtons, and the
\* buttons found by their label)
Tools == {"image", "oglink", "quotation", "horizontal-line", "bold", "italic",
          "underline", "font-size", "material", "publish"}

\* a snapshot in which every toolbar control but those in `missing` was found
Dom(missing) == [toolbar |-> Tools \ missing]

Absent == <<"absent">>   \* the key is not in the dict
Null == <<"null">>       \* the key is there with JSON null

(***************************************************************************)
(* The AI reasoning service.  A decision's next_action is                  *)
(* [kind, type, coords, value]: kind says whether the key is absent, null  *)
(* or an object; coords and value are Absent, Null or the value.           *)
(***************************************************************************)
ActionTypes == {"click", "input", "wait", "escape", "scroll", "absent"}

NoAction(kind) == [kind |-> kind, type |-> "absent", coords |-> Absent, value |-> Absent]

Actions ==
    [kind : {"object"}, type : ActionTypes,
     coords : {Absent, Null, At("ai")}, value : {Absent, Null, <<"a">>}]

\* what the service may answer: no answer at all (status "neterr": the request
\* raised), an HTTP error, text that is no JSON, JSON that is no object, or a
\* decision object
Responses ==
    [status : {"neterr", "500"}, body : {"none"}, can_proceed : {"absent"},
     next_action : {NoAction("absent")}]
    \cup
    [status : {"200"}, body : {"malformed", "nonobject"}, can_proceed : {"absent"},
     next_action : {NoAction("absent")}]
    \cup
    [status : {"200"}, body : {"object"}, can_proceed : {"true", "false", "absent"},
     next_action : {NoAction("absent"), NoAction("null")} \cup Actions]

Decision(kind, err, cp, na) ==
    [kind |-> kind, error |-> err, can_proceed |-> cp, next_action |-> na]

\* AdaptivePublisher._get_ai_decision_text_only: the dict it returns
_get_ai_decision_text_only(resp) ==
    IF resp.status = "neterr"
    THEN Decision("dict", "exception", "false", NoAction("absent"))
    ELSE IF resp.status # "200"
    THEN Decision("dict", "http", "false", NoAction("absent"))
    ELSE IF resp.body = "malformed"
    THEN Decision("dict", "exception", "false", NoAction("absent"))
    ELSE IF resp.body = "nonobject"
    THEN Decision("nondict", "absent", "absent", NoAction("absent"))
    ELSE Decision("dict", "absent", resp.can_proceed, resp.next_action)

\* AdaptivePublisher._press_escape
_press_escape ==
    << KeyEvent("keyDown", "Escape", None, 0), KeyEvent("keyUp", "Escape", None, 0) >>

\* AdaptivePublisher._scroll(direction): one mouseWheel event at (500, 400)
_scroll == << MouseEvent("mouseWheel", <<"xy", "500", "400">>) >>

\* Python truth of an optional coords / value
Truthy(v) == v \notin {Absent, Null, << >>}

Outcome(evs, r, exc) == [evs |-> evs, ret |-> r, raised |-> exc]

\* a plausible slip: the directive's fields are not checked before use
execute_action_unchecked(action) ==
    IF action.kind = "null" THEN Outcome(<< >>, FALSE, TRUE)
    ELSE IF action.type \in {"click", "input"}
    THEN Outcome(_click_at(action.coords), TRUE, FALSE)
    ELSE Outcome(<< >>, FALSE, FALSE)

\* AdaptivePublisher._execute_action
_execute_action(action) ==
    IF action.kind = "null"
    THEN Outcome(<< >>, FALSE, TRUE)            \* None.get: AttributeError
    ELSE IF action.type = "click" /\ Truthy(action.coords)
    THEN Outcome(_click_at(action.coords), TRUE, FALSE)
    ELSE IF action.type = "input" /\ Truthy(action.coords) /\ Truthy(action.value)
    THEN Outcome(_click_at(action.coords) \o _type_text(action.value), TRUE, FALSE)
    ELSE IF action.type = "wait"
    THEN Outcome(<< >>, TRUE, FALSE)
    ELSE IF action.type = "escape"
    THEN Outcome(_press_escape, TRUE, FALSE)
    ELSE IF action.type = "scroll"
    THEN Outcome(_scroll, TRUE, FALSE)
    ELSE Outcome(<< >>, FALSE, FALSE)

\* the default {} of state.get("ai_decision", {}) and of the result dict
EmptyDecision == Decision("dict", "absent", "absent", NoAction("absent"))

\* AdaptivePublisher._analyze_current_state(task, use_ai): the snapshot, and the
\* service's decision when use_ai is set; `asked` counts the requests it sent
_analyze_current_state(task, use_ai, dom, resp) ==
    [dom |-> dom,
     ai_decision |-> IF use_ai THEN _get_ai_decision_text_only(resp) ELSE EmptyDecision,
     asked |-> IF use_ai THEN 1 ELSE 0]

\* AdaptivePublisher._smart_click, after the analysis (lines 509-517): the
\* decision is executed when it says can_proceed; a next_action that is absent
\* defaults to {}
SmartClickDecide(ai_decision) ==
    IF ai_decision.kind = "nondict"
    THEN Outcome(<< >>, FALSE, TRUE)            \* list.get: AttributeError
    ELSE IF ai_decision.can_proceed = "true"
    THEN _execute_action(IF ai_decision.next_action.kind = "absent"
                         THEN NoAction("object") ELSE ai_decision.next_action)
    ELSE Outcome(<< >>, FALSE, FALSE)

\* task_to_dom_key of _smart_click, in the dict's order
task_to_dom_key ==
    << <<"K_image", "image">>, <<"K_material", "material">>,
       <<"K_quote", "quotation">>, <<"K_divider", "horizontal-line">>,
       <<"K_bold", "bold">>, <<"K_publish", "publish">> >>

\* `keyword in task`: a task is the sequence of the words of its description
InTask(keyword, task) == \E k \in 1..Len(task) : task[k] = keyword

\* the entries of task_to_dom_key whose keyword is in the task and whose
\* control the snapshot found
Hits(task, dom) ==
    { k \in 1..Len(task_to_dom_key) :
        /\ InTask(task_to_dom_key[k][1], task)
        /\ task_to_dom_key[k][2] \in dom.toolbar }

Min(S) == CHOOSE m \in S : \A n \in S : m <= n

\* the service's answer in a publish run, were a request ever sent: a click
\* directive that may proceed
ServiceAnswer ==
    [status |-> "200", body |-> "object", can_proceed |-> "true",
     next_action |-> [kind |-> "object", type |-> "click", coords |-> At("ai"),
                      value |-> Absent]]

\* a plausible slip: the click lands on the first toolbar control, not the found one
smart_click_wrong_target(task, dom) ==
    IF Hits(task, dom) # {}
    THEN [task |-> task, found |-> TRUE, evs |-> _click_at(At(task_to_dom_key[1][2])),
          asked |-> 0, ret |-> TRUE, raised |-> FALSE]
    ELSE [task |-> task, found |-> FALSE, evs |-> << >>,
          asked |-> 0, ret |-> FALSE, raised |-> FALSE]

\* AdaptivePublisher._smart_click(task), `dom` being the snapshot it takes
_smart_click(task, dom) ==
    IF Hits(task, dom) # {}
    THEN [task |-> task, found |-> TRUE,
          evs |-> _click_at(At(task_to_dom_key[Min(Hits(task, dom))][2])),
          asked |-> 0, ret |-> TRUE, raised |-> FALSE]
    ELSE LET st == _analyze_current_state(task, FALSE, dom, ServiceAnswer)
             out == SmartClickDecide(st.ai_decision)
         IN  [task |-> task, found |-> FALSE, evs |-> out.evs,
              asked |-> st.asked, ret |-> out.ret, raised |-> out.raised]

(***************************************************************************)
(* Content sections.  A section is                                         *)
(*   [type, content, format, exists, link, caption, url, text]             *)
(* with << >> for a key the caller left out; `exists` says whether the     *)
(* image file of an image section is on disk.                              *)
(***************************************************************************)
Section(type, content, format, exists, link, caption, url, txt) ==
    [type |-> type, content |-> content, format |-> format, exists |-> exists,
     link |-> link, caption |-> caption, url |-> url, text |-> txt]

SectionKinds ==
    { Section("text", <<"a">>, << >>, FALSE, << >>, << >>, << >>, << >>),
      Section("text", <<"a">>, <<"bold">>, FALSE, << >>, << >>, << >>, << >>),
      Section("image", << >>, << >>, TRUE, << >>, <<"c">>, << >>, << >>),
      Section("image", << >>, << >>, TRUE, <<"u">>, << >>, << >>, << >>),
      Section("image", << >>, << >>, FALSE, << >>, <<"c">>, << >>, << >>),
      Section("oglink", << >>, << >>, FALSE, << >>, << >>, <<"u">>, <<"l">>),
      Section("quote", <<"a">>, << >>, FALSE, << >>, << >>, << >>, << >>),
      Section("divider", << >>, << >>, FALSE, << >>, << >>, << >>, << >>) }

\* Ctrl+A, Enter and End, as the executors send them (keyDown, keyUp; no char)
SelectAllKeys ==
    << KeyEvent("keyDown", "a", None, 2), KeyEvent("keyUp", "a", None, 0) >>

EnterKeys ==
    << KeyEvent("keyDown", "Enter", None, 0), KeyEvent("keyUp", "Enter", None, 0) >>

EndKeys ==
    << KeyEvent("keyDown", "End", None, 0), KeyEvent("keyUp", "End", None, 0) >>

\* what an executor did: the events it dispatched, what it returned, the
\* section-level failure it ran into (None: none)
Done(evs, r, why) == [evs |-> evs, ret |-> r, why |-> why]

\* AdaptivePublisher._handle_image_upload for a file that exists.
\* btn: the image button was found; chooser: the file chooser opened and took
\* the file (else expect_file_chooser raised, which the try catches);
\* before/after: image components in the editor before the click and at the check
_handle_image_upload(btn, chooser, before, after) ==
    IF ~btn THEN Done(<< >>, FALSE, "unresolved")
    ELSE IF ~chooser THEN Done(_click_at(At("image")), FALSE, "upload")
    ELSE IF after > 0 THEN Done(_click_at(At("image")), TRUE,
                                IF after > before THEN None ELSE "upload")
    ELSE Done(_click_at(At("image")), TRUE, "upload")

\* AdaptivePublisher._add_link_to_image
_add_link_to_image(link_url, linkBtn, urlInput) ==
    IF ~linkBtn THEN Done(<< >>, FALSE, "unresolved")
    ELSE IF ~urlInput
    THEN Done(_click_at(At("image-link")) \o _press_escape, FALSE, "unresolved")
    ELSE Done(_click_at(At("image-link")) \o _click_at(At("url-input")) \o SelectAllKeys
              \o _type_text(link_url) \o EnterKeys, TRUE, None)

\* a plausible slip: the link is added whether or not the image was found
image_with_link_unchecked(up, link_url, imgElem, linkBtn, urlInput) ==
    IF ~up.ret THEN up
    ELSE LET lk == _add_link_to_image(link_url, linkBtn, urlInput)
         IN  Done(up.evs \o (IF imgElem THEN _click_at(At("image-component")) ELSE << >>)
                  \o lk.evs, lk.ret, IF lk.why # None THEN lk.why ELSE up.why)

\* AdaptivePublisher._handle_image_with_link; `up` is what the upload did
_handle_image_with_link(up, link_url, imgElem, linkBtn, urlInput) ==
    IF ~up.ret THEN up
    ELSE IF ~imgElem THEN Done(up.evs, FALSE, "unresolved")
    ELSE LET lk == _add_link_to_image(link_url, linkBtn, urlInput)
         IN  Done(up.evs \o _click_at(At("image-component")) \o lk.evs, lk.ret,
                  IF lk.why # None THEN lk.why ELSE up.why)

\* AdaptivePublisher._handle_oglink
_handle_oglink(url, link_text, body, textlink, urlInput) ==
    LET display_text == IF link_text # << >> THEN link_text ELSE url
        lead == _press_escape
                \o (IF body THEN _click_at(At("body-below")) ELSE << >>)
                \o _type_text(display_text)
    IN  IF ~textlink
        THEN Done(lead \o _type_text(<<NL>>), FALSE, "unresolved")
        ELSE IF urlInput
        THEN Done(lead \o _click_at(At("text-link")) \o _click_at(At("url-input"))
                  \o SelectAllKeys \o _type_text(url) \o EnterKeys \o EndKeys
                  \o _type_text(<<NL>>), TRUE, None)
        ELSE Done(lead \o _click_at(At("text-link")) \o _press_escape
                  \o _type_text(<<NL>>), FALSE, "unresolved")

\* AdaptivePublisher._dismiss_temp_save_popup: popup is the probe's answer
_dismiss_temp_save_popup(popup) ==
    IF popup THEN Done(_click_at(At("popup-cancel")), TRUE, None)
    ELSE Done(<< >>, FALSE, None)

\* a plausible slip: the click goes out whether or not the button was found
click_publish_button_blind(found) == Done(_click_at(At("publish-header")), found, None)

\* AdaptivePublisher._click_publish_button: found is the probe's answer
_click_publish_button(found) ==
    IF found THEN Done(_click_at(At("publish-header")), TRUE, None)
    ELSE Done(<< >>, FALSE, None)

\* AdaptivePublisher._click_final_publish_button
_click_final_publish_button(found) ==
    IF found THEN Done(_click_at(At("publish-final")), TRUE, None)
    ELSE Done(<< >>, FALSE, None)

(***************************************************************************)
(* URLs, as the sequence of their parts; `part in url` is the substring    *)
(* test of the source for the parts it looks for.                          *)
(***************************************************************************)
WriteUrl == <<"blog.naver.com", "myblog", "postwrite">>
PostViewUrl == <<"blog.naver.com", "PostView.naver", "blogId=myblog">>
LogNoUrl == <<"blog.naver.com", "myblog", "logNo=1">>
URLs == {WriteUrl, PostViewUrl, LogNoUrl}

\* the words a part of a URL contains, of those the source searches for
Words(part) ==
    CASE part = "PostView.naver" -> {"PostView"}
      [] part = "logNo=1" -> {"logNo"}
      [] part = "postwrite" -> {"postwrite"}
      [] OTHER -> {}

Contains(url, word) == \E k \in 1..Len(url) : word \in Words(url[k])

\* a plausible slip: the write page's own URL is taken for a published post
is_published_url_loose(url) == Contains(url, "PostView") \/ Contains(url, "postwrite")

\* `"PostView" in current_url or "logNo" in current_url`
IsPublishedUrl(url) == Contains(url, "PostView") \/ Contains(url, "logNo")

(***************************************************************************)
(* NaverPublisher and the component handlers of publish_with_rich_content. *)
(***************************************************************************)
\* NaverPublisher._click_at
Naver_click_at(pt) ==
    << MouseEvent("mouseMoved", pt),
       MouseEvent("mousePressed", pt),
       MouseEvent("mouseReleased", pt) >>

\* NaverPublisher._click_tool(data_name): found is the probe's answer
_click_tool(data_name, found) ==
    IF found THEN Done(Naver_click_at(At(data_name)), TRUE, None)
    ELSE Done(<< >>, FALSE, "unresolved")

\* NaverPublisher._enter_title: how == "quads" (the element is found and
\* clicked at the centre of its quad), "js" (found, clicked by this.click()),
\* or "none" (not found: RuntimeError)
_enter_title(t, how) ==
    IF how = "none" THEN Outcome(<< >>, FALSE, TRUE)
    ELSE Outcome((IF how = "quads" THEN Naver_click_at(At("title")) ELSE << >>)
                 \o Naver_type_text(t), TRUE, FALSE)

\* NaverPublisher._move_to_body: how == "found" | "element" | "fixed";
\* stillTitle: the font-size button still reads '32'
_move_to_body(how, stillTitle) ==
    (IF how = "fixed" THEN Naver_click_at(<<"xy", "700", "400">>)
     ELSE Naver_click_at(At("body")))
    \o (IF stillTitle THEN Naver_click_at(<<"xy", "700", "450">>) ELSE << >>)

\* ImageHandler._click_image_button: mousePressed and mouseReleased only
_click_image_button(found) ==
    IF found THEN Done(<< MouseEvent("mousePressed", At("image")),
                          MouseEvent("mouseReleased", At("image")) >>, TRUE, None)
    ELSE Done(<< >>, FALSE, "unresolved")

\* ImageHandler._wait_for_upload_complete: initial_count is the count read when
\* the wait starts, seen_count the largest count a poll saw before the timeout
_wait_for_upload_complete(initial_count, seen_count, expected_count) ==
    seen_count >= initial_count + expected_count

\* ImageHandler.upload_image for one file: exists (the file is on disk), btn
\* (the image button is found), input (the hidden file input appears),
\* initial_count / seen_count as in _wait_for_upload_complete
upload_image(exists, btn, input, initial_count, seen_count) ==
    IF ~exists THEN Done(<< >>, FALSE, "missing_file")
    ELSE IF ~btn THEN Done(<< >>, FALSE, "unresolved")
    ELSE IF ~input THEN Done(_click_image_button(TRUE).evs, FALSE, "unresolved")
    ELSE IF _wait_for_upload_complete(initial_count, seen_count, 1)
    THEN Done(_click_image_button(TRUE).evs, TRUE, None)
    ELSE Done(_click_image_button(TRUE).evs, FALSE, "upload")

\* Input.insertText with the URL as its text
InsertText ==
    [dev |-> "text", type |-> "insertText", key |-> None, text |-> "url", mod |-> 0,
     pt |-> NoPt]

\* OGLinkHandler.insert_oglink(url): `fail` names the step that does not find
\* its element ("none": every step succeeds)
insert_oglink(url, fail) ==
    LET btn == Naver_click_at(At("oglink"))
        enter == Naver_click_at(At("oglink-input")) \o <<InsertText>> \o EnterKeys
    IN  CASE fail = "button" -> Done(<< >>, FALSE, "unresolved")
          [] fail = "modal" -> Done(btn, FALSE, "unresolved")
          [] fail = "input" -> Done(btn \o _press_escape, FALSE, "unresolved")
          [] fail = "confirm" -> Done(btn \o enter \o _press_escape, FALSE, "unresolved")
          [] OTHER -> Done(btn \o enter \o Naver_click_at(At("oglink-confirm")), TRUE, None)

\* what _click_publish did: its events, the URL it returned (NoUrl: None), the
\* URL it read last, and its two click steps
Published(evs, url, read, header, final) ==
    [evs |-> evs, url |-> url, read |-> read, header |-> header, final |-> final]

\* NaverPublisher._click_publish: header / final are the probes' answers, url1
\* the page URL at line 860, waited whether wait_for_url("**/PostView**") returned
Naver_click_publish(header, final, url1, waited) ==
    IF ~header
    THEN Published(<< >>, NoUrl, NoUrl, Done(<< >>, FALSE, None), Done(<< >>, FALSE, None))
    ELSE LET h == Done(Naver_click_at(At("publish-header")), TRUE, None)
             f == IF final THEN Done(Naver_click_at(At("publish-final")), TRUE, None)
                  ELSE Done(<< >>, FALSE, None)
         IN  IF IsPublishedUrl(url1) THEN Published(h.evs \o f.evs, url1, url1, h, f)
             ELSE IF waited THEN Published(h.evs \o f.evs, PostViewUrl, PostViewUrl, h, f)
             ELSE Published(h.evs \o f.evs, NoUrl, url1, h, f)

(***************************************************************************)
(* PopupWatchdog: JavaScript dialogs.  A dialog event is                   *)
(* [type, default_prompt]; type "absent" is an event without a 'type' key. *)
(* An override is what the handler registered by set_handler returns:      *)
(* [set, accept, prompt_text].                                             *)
(***************************************************************************)
DialogTypes == {"alert", "confirm", "prompt", "beforeunload"}

AUTO_ACCEPT == {"alert", "beforeunload"}

DialogEvents ==
    [type : {"alert", "confirm", "beforeunload", "absent"}, default_prompt : {""}]
    \cup [type : {"prompt"}, default_prompt : {"", "d"}]

NoHandler == [set |-> FALSE, accept |-> FALSE, prompt_text |-> None, raises |-> FALSE]

Handlers == [set : {TRUE}, accept : BOOLEAN, prompt_text : {None, "x"}, raises : {FALSE}]

\* an override that raises instead of returning
RaisingHandler == [set |-> TRUE, accept |-> FALSE, prompt_text |-> None, raises |-> TRUE]

\* _custom_handlers = {}
NoHandlers == [t \in DialogTypes |-> NoHandler]

\* event.get('type', 'alert')
TypeOf(event) == IF event.type = "absent" THEN "alert" ELSE event.type

\* a plausible slip: every dialog is accepted
dialog_params_accept_all(event, handlers) ==
    [accept |-> TRUE,
     promptText |-> IF TypeOf(event) = "prompt" THEN event.default_prompt ELSE None]

\* PopupWatchdog.on_Page_javascriptDialogOpening: the params of the
\* Page.handleJavaScriptDialog it sends (promptText None: no such key)
DialogParams(event, handlers) ==
    LET dialog_type == TypeOf(event)
    IN  IF handlers[dialog_type].set
        THEN [accept |-> handlers[dialog_type].accept,
              promptText |-> handlers[dialog_type].prompt_text]
        ELSE [accept |-> dialog_type \in AUTO_ACCEPT,
              promptText |-> IF dialog_type = "prompt" THEN event.default_prompt
                             ELSE None]

(***************************************************************************)
(* EditorPopupWatchdog: popups of the editor page.  What the page shows is *)
(* "none", "temp_save" (the temp-save popup with its cancel button) or     *)
(* "temp_save_no_cancel" (the popup without a button the probes accept).   *)
(***************************************************************************)
Shown == {"none", "temp_save", "temp_save_no_cancel"}

\* BaseWatchdog.click_at
click_at(pt) ==
    << MouseEvent("mouseMoved", pt),
       MouseEvent("mousePressed", pt),
       MouseEvent("mouseReleased", pt) >>

\* a plausible slip: Escape is pressed when no popup answers the probe
handle_popup_escape_when_absent(page, active) ==
    IF page = "temp_save"
    THEN [evs |-> click_at(At("popup-cancel")), ret |-> TRUE, active |-> None]
    ELSE [evs |-> _press_escape, ret |-> FALSE, active |-> active]

\* EditorPopupWatchdog.handle_popup('dismiss', 'temp_save') on a page showing
\* `page`: wait_for_popup, find_button_in_popup('cancel'), click_at;
\* active is _active_popup
handle_popup(page, active) ==
    IF page = "none"
    THEN [evs |-> << >>, ret |-> FALSE, active |-> active]
    ELSE IF page = "temp_save_no_cancel"
    THEN [evs |-> << >>, ret |-> FALSE, active |-> "temp_save"]
    ELSE [evs |-> click_at(At("popup-cancel")), ret |-> TRUE, active |-> None]

\* what one dismissal call saw and did
PopupCall(who, page, evs, r) == [who |-> who, shown |-> page, evs |-> evs, ret |-> r]

(***************************************************************************)
(* PublishResult, and the snapshot publish keeps.                          *)
(***************************************************************************)
PublishResult(ok, url, msg) ==
    [returned |-> TRUE, success |-> ok, blog_url |-> url, error_message |-> msg,
     screenshots |-> << >>]

\* PublishResult(..., screenshots=screenshots)
WithScreenshots(r, shots) == [r EXCEPT !.screenshots = shots]

\* the result the except clause of the entry point returns: those of
\* AdaptivePublisher.publish and NaverPublisher.publish carry the screenshots
Except(entry, shots) ==
    IF entry = "rich" THEN PublishResult(FALSE, NoUrl, "exception")
    ELSE WithScreenshots(PublishResult(FALSE, NoUrl, "exception"), shots)

\* NaverPublisher.publish, lines 606-613: the screenshot of the failure, when
\* screenshot_on_error is set and page.screenshot succeeds (shot)
ErrorShot(entry, shots, shot) ==
    IF entry = "naver" /\ shot THEN Append(shots, "error") ELSE shots

\* publish has not returned yet
NoResult ==
    [returned |-> FALSE, success |-> FALSE, blog_url |-> NoUrl, error_message |-> None,
     screenshots |-> << >>]

\* publish has not taken its snapshot yet (`at`: how many input events had
\* been dispatched when the snapshot was taken)
NoState == [taken |-> FALSE, title |-> FALSE, body |-> FALSE, modals |-> FALSE, at |-> 0]

(***************************************************************************)
(* Typing runs: one call of _type_text(text), one loop iteration per step. *)
(***************************************************************************)
NoPublish ==
    /\ title = << >> /\ sections = << >> /\ i = 0 /\ state = NoState
    /\ result = NoResult /\ imgCount = 0 /\ quirks = 0
    /\ stages = << >> /\ attempted = {} /\ failed = {} /\ smartCalls = << >>
    /\ uploads = {} /\ pubClicks = << >> /\ urlRead = NoUrl

NoTyping == text = << >> /\ typed = 0

NoAI == response = ServiceAnswer /\ decision = EmptyDecision /\ ret = FALSE /\ raised = FALSE

\* the publisher as __init__ leaves it: no playwright, no page
NewBrowser == [playwright |-> "none", page |-> "none", link |-> "up"]

\* _init_browser / _init_browser_cdp: playwright is started, then the browser
\* is connected and a page opened; reachable is whether connect_over_cdp answers
_init_browser(b, reachable) ==
    IF reachable THEN [b EXCEPT !.playwright = "started", !.page = "open"]
    ELSE [b EXCEPT !.playwright = "started"]

\* page.close() and playwright.stop() of a publisher in state b
Closed(b) ==
    [b EXCEPT !.page = IF b.page = "none" THEN "none" ELSE "closed",
              !.playwright = IF b.playwright = "none" THEN "none" ELSE "stopped"]

\* a plausible slip: no try/except around the two calls
close_browser_unguarded(b) ==
    IF b.page # "none" /\ b.link = "down"
    THEN [browser |-> b, raised |-> TRUE]
    ELSE [browser |-> Closed(b), raised |-> FALSE]

\* _close_browser: page.close() raises when the connection is gone, which the
\* bare except swallows (playwright.stop() is then not reached)
_close_browser(b) ==
    IF b.page # "none" /\ b.link = "down"
    THEN [browser |-> b, raised |-> FALSE]
    ELSE [browser |-> Closed(b), raised |-> FALSE]

\* one _close_browser call, as the history keeps it
CloseCall(b, o) == [before |-> b, after |-> o.browser, raised |-> o.raised]

NoFault == [call |-> "none", tries |-> 0]

\* no watchdog at work
NoDog ==
    /\ shown = "none" /\ attached = FALSE /\ event_history = << >>
    /\ dialog_history = << >> /\ custom_handlers = NoHandlers /\ active_popup = None
    /\ dialogs = << >> /\ sent = << >>
    /\ listeners = 0 /\ opened = << >>

NoRun ==
    /\ browser = NewBrowser /\ closes = << >> /\ fault = NoFault /\ popups = << >>
    /\ screenshots = << >>

InitType ==
    /\ impl \in {"adaptive", "naver"}
    /\ pc = "typing"
    /\ text \in SeqsUpTo(Chars, MaxLen)
    /\ typed = 0
    /\ events = << >>
    /\ aiCalls = 0
    /\ NoPublish /\ NoAI /\ NoRun /\ NoDog

TypeChar ==
    /\ pc = "typing"
    /\ typed < Len(text)
    /\ events' = events \o Tag(IF impl = "adaptive"
                               THEN _type_text_char(text[typed + 1])
                               ELSE Naver_type_text_char(text[typed + 1]), 0)
    /\ typed' = typed + 1
    /\ UNCHANGED <<screenshots, lifeVars, impl, title, sections, pc, i, state, result,
                   envVars, histVars, text, aiVars, restVars>>

TypeDone ==
    /\ pc = "typing"
    /\ typed = Len(text)
    /\ pc' = "done"
    /\ UNCHANGED <<screenshots, lifeVars, impl, title, sections, i, state, events, result,
                   envVars, histVars, typeVars, aiVars, restVars>>

NextType == TypeChar \/ TypeDone

SpecType == InitType /\ [][NextType]_vars

KeyOf(c) == IF c = NL THEN "Enter" ELSE c
TextOf(c) == IF c = NL THEN "\r" ELSE c

\* C1: for each character of the text, in text order, _type_text dispatches
\* exactly keyDown, char, keyUp; keyDown and keyUp carry no text, the char event
\* carries the character (a newline: the Enter key with text "\r"); the three
\* events of a character precede every event of the next character.
C1_TypeShape ==
    pc \in {"typing", "done"} =>
        /\ Len(events) = 3 * typed
        /\ \A k \in 1..typed :
             /\ events[3 * k - 2].ev = KeyEvent("keyDown", KeyOf(text[k]), None, 0)
             /\ events[3 * k - 1].ev = KeyEvent("char", KeyOf(text[k]), TextOf(text[k]), 0)
             /\ events[3 * k].ev = KeyEvent("keyUp", KeyOf(text[k]), None, 0)
        /\ \A k \in 1..Len(events) :
             events[k].ev.type \in {"keyDown", "keyUp"} => events[k].ev.text = None
        /\ (pc = "done" => typed = Len(text))

\* a whole text with a newline in the middle was typed
C1_Witness ==
    /\ pc = "done" /\ impl = "adaptive"
    /\ Len(text) = 3 /\ text[2] = NL /\ text[1] # NL /\ text[3] # NL
    /\ Len(events) = 9

(***************************************************************************)
(* Publish runs: AdaptivePublisher.publish (impl = "adaptive") and         *)
(* publish_with_rich_content (impl = "rich").  One action per step of the  *)
(* entry point's body; the answers of the page are chosen by the           *)
(* environment, of which at most MaxQuirks per run are adverse (an element *)
(* that is not there, a popup that is, a call that raises, an upload that  *)
(* stalls).                                                                *)
(***************************************************************************)
PopupTries == 3     \* for _ in range(3)
Title == <<"t">>

\* NaverPublisher.publish takes a text: `sections` holds its paragraphs (what
\* plain_content.split('\n\n') gives), each a plain text section
Paragraphs == {Section("text", <<"a">>, << >>, FALSE, << >>, << >>, << >>, << >>)}

Cost(ok) == IF ok THEN 0 ELSE 1

Init ==
    /\ impl \in {"adaptive", "rich", "naver"}
    /\ title = Title
    /\ sections \in (IF impl = "naver" THEN SeqsUpTo(Paragraphs, MaxSections)
                      ELSE SeqsUpTo(SectionKinds, MaxSections))
    /\ pc = "start" /\ i = 0 /\ state = NoState /\ events = << >> /\ result = NoResult
    /\ imgCount = 0 /\ quirks = 0
    /\ stages = << >> /\ attempted = {} /\ failed = {} /\ smartCalls = << >>
    /\ uploads = {} /\ pubClicks = << >> /\ aiCalls = 0 /\ urlRead = NoUrl
    /\ NoTyping /\ NoAI /\ NoRun /\ NoDog

\* one completed _smart_click call, as the history keeps it
Call(c, sec) ==
    [sec |-> sec, task |-> c.task, found |-> c.found, evs |-> c.evs, asked |-> c.asked,
     ret |-> c.ret]

\* one completed publish-click step, as the history keeps it
Click(step, found, d) == [step |-> step, found |-> found, evs |-> d.evs, ret |-> d.ret]

\* _init_browser / _init_browser_cdp connected
Connect ==
    /\ pc = "start"
    /\ browser' = _init_browser(browser, TRUE)
    /\ pc' = "navigate"
    /\ UNCHANGED <<screenshots, lifeVars, impl, title, sections, i, state, events, result,
                   envVars, histVars, typeVars, aiVars, closes, runVars, dogVars>>

\* a plausible slip: a failed connection is logged and the run goes on
connect_failure_ignored == "navigate"

\* where a run goes when _init_browser raised: to the except clause, which
\* returns, and so to the finally clause
ConnectFailed == "finally"

\* _init_browser / _init_browser_cdp raised its RuntimeError (connection failed)
ConnectFail ==
    /\ pc = "start"
    /\ browser' = _init_browser(browser, FALSE)
    /\ result' = IF impl = "rich" THEN PublishResult(FALSE, NoUrl, "connection")
                 ELSE WithScreenshots(PublishResult(FALSE, NoUrl, "connection"),
                                      screenshots)
    /\ pc' = ConnectFailed
    /\ UNCHANGED <<screenshots, lifeVars, impl, title, sections, i, state, events,
                   envVars, histVars, typeVars, aiVars, closes, runVars, dogVars>>

\* page.goto(write_url); NaverPublisher.publish checks the login next
Navigate ==
    /\ pc = "navigate"
    /\ stages' = Append(stages, "navigation")
    /\ pc' = IF impl = "naver" THEN "login" ELSE "popups"
    /\ screenshots' = IF impl = "adaptive" THEN Append(screenshots, "01_initial")
                      ELSE screenshots
    /\ UNCHANGED <<lifeVars, impl, title, sections, i, state, events, result, envVars,
                   attempted, failed, smartCalls, uploads, pubClicks, aiCalls, urlRead,
                   typeVars, aiVars, restVars>>

\* the stage the step at pc belongs to
StageAt ==
    CASE pc = "navigate" -> "navigation"
      [] pc = "popups" -> "popups"
      [] pc = "title" -> "title"
      [] pc = "body" -> "sections"
      [] pc = "sections" -> "header_publish"
      [] OTHER -> "final_publish"

\* executing the section makes at least one call to the page
Calls(s) == s.type # "image" \/ s.exists

\* the calls to the page the step at pc makes
CallsAt ==
    IF pc = "navigate" THEN {"goto"} ELSE {"evaluate", "dispatch"}

\* A call to the page raises in the step at pc (page.goto, Runtime.evaluate,
\* Input.dispatch*), with the connection still up or gone: the call was issued
\* once, and the exception reaches the except clause of the entry point, which
\* returns a failure carrying str(e).
Raise ==
    /\ \/ pc \in {"navigate", "popups", "title", "body"}
       \/ pc = "final" /\ impl = "adaptive"
       \/ pc = "sections" /\ (i < Len(sections) => Calls(sections[i + 1]))
    /\ quirks < MaxQuirks
    /\ quirks' = quirks + 1
    /\ \E call \in CallsAt, link \in {"up", "down"} :
         /\ fault' = [call |-> call, tries |-> 1]
         /\ browser' = [browser EXCEPT !.link = link]
         /\ screenshots' = ErrorShot(impl, screenshots, link = "up")
    /\ IF pc = "sections" /\ i < Len(sections)
       THEN /\ i' = i + 1
            /\ attempted' = attempted \cup {i + 1}
            /\ failed' = failed \cup {[sec |-> i + 1, why |-> "raised"]}
            /\ stages' = stages
       ELSE /\ stages' = IF StageAt \in {stages[k] : k \in 1..Len(stages)}
                         THEN stages ELSE Append(stages, StageAt)
            /\ UNCHANGED <<i, attempted, failed>>
    /\ result' = Except(impl, screenshots')
    /\ pc' = "finally"
    /\ UNCHANGED <<lifeVars, impl, title, sections, state, events, imgCount,
                   smartCalls, uploads, pubClicks, aiCalls, urlRead, typeVars, aiVars,
                   closes, popups, dogVars>>

RECURSIVE Clicks(_, _)
\* n clicks on the popup's cancel button
Clicks(n, pt) == IF n = 0 THEN << >> ELSE _click_at(pt) \o Clicks(n - 1, pt)

RECURSIVE Dismissed(_, _)
\* n dismissal calls that each found the popup and clicked its cancel button
Dismissed(n, who) ==
    IF n = 0 THEN << >>
    ELSE <<PopupCall(who, "temp_save", _click_at(At("popup-cancel")), TRUE)>>
         \o Dismissed(n - 1, who)

\* publish, lines 546-561: the temp-save popup loop, the snapshot kept in
\* `state`, and one more dismissal when the snapshot shows a modal.  n calls of
\* the loop dismiss a popup; page is what the editor shows after the loop (the
\* call that ended the loop saw the same, unless a popup opened since).
DismissPopups ==
    /\ pc = "popups" /\ impl = "adaptive"
    /\ \E n \in 0..PopupTries, t \in BOOLEAN, b \in BOOLEAN, page \in Shown :
         LET m == page # "none"
             o == _dismiss_temp_save_popup(page = "temp_save")
             last == IF page = "temp_save" THEN "none" ELSE page
         IN
         /\ quirks + Cost(n = 0) + Cost(t) + Cost(b) + Cost(~m) <= MaxQuirks
         /\ quirks' = quirks + Cost(n = 0) + Cost(t) + Cost(b) + Cost(~m)
         /\ state' = [taken |-> TRUE, title |-> t, body |-> b, modals |-> m,
                       at |-> Len(events) + Len(Clicks(n, At("popup-cancel")))]
         /\ events' = events \o Tag(Clicks(n, At("popup-cancel"))
                                    \o (IF m THEN o.evs ELSE << >>), 0)
         /\ popups' = popups \o Dismissed(n, "adaptive")
                        \o (IF n < PopupTries
                            THEN <<PopupCall("adaptive", last, << >>, FALSE)>> ELSE << >>)
                        \o (IF m THEN <<PopupCall("adaptive", page, o.evs, o.ret)>>
                            ELSE << >>)
    /\ stages' = Append(stages, "popups")
    /\ pc' = "title"
    /\ UNCHANGED <<screenshots, lifeVars, impl, title, sections, i, result, imgCount,
                   attempted, failed, smartCalls, uploads, pubClicks, aiCalls, urlRead,
                   typeVars, aiVars, browserVars, fault, dogVars>>

\* publish, lines 563-575
EnterTitle ==
    /\ pc = "title" /\ impl = "adaptive"
    /\ IF state.title
       THEN /\ events' = events \o Tag(_click_at(At("title")) \o _type_text(title), 0)
            /\ UNCHANGED <<smartCalls, aiCalls>>
       ELSE LET c == _smart_click(<<"K_title", "K_input", "K_area", "K_click">>, Dom({}))
            IN  /\ events' = events \o Tag(c.evs \o _type_text(title), 0)
                /\ smartCalls' = Append(smartCalls, Call(c, 0))
                /\ aiCalls' = aiCalls + c.asked
    /\ stages' = Append(stages, "title")
    /\ screenshots' = Append(screenshots, "02_title")
    /\ pc' = "body"
    /\ UNCHANGED <<lifeVars, impl, title, sections, i, state, result, envVars,
                   attempted, failed, uploads, pubClicks, urlRead, typeVars, aiVars, restVars>>

\* publish, lines 577-588: click into the body, dismiss a popup if there is one
MoveToBody ==
    /\ pc = "body" /\ impl = "adaptive"
    /\ \E page \in Shown :
         LET o == _dismiss_temp_save_popup(page = "temp_save") IN
         /\ quirks + Cost(page = "none") <= MaxQuirks
         /\ quirks' = quirks + Cost(page = "none")
         /\ popups' = Append(popups, PopupCall("adaptive", page, o.evs, o.ret))
         /\ IF state.body
            THEN /\ events' = events \o Tag(_click_at(At("body")) \o o.evs, 0)
                 /\ UNCHANGED <<smartCalls, aiCalls>>
            ELSE LET c == _smart_click(<<"K_body", "K_area", "K_click">>, Dom({}))
                 IN  /\ events' = events \o Tag(c.evs \o o.evs, 0)
                     /\ smartCalls' = Append(smartCalls, Call(c, 0))
                     /\ aiCalls' = aiCalls + c.asked
    /\ stages' = Append(stages, "sections")
    /\ pc' = "sections"
    /\ UNCHANGED <<screenshots, lifeVars, impl, title, sections, i, state, result, imgCount,
                   attempted, failed, uploads, pubClicks, urlRead, typeVars, aiVars,
                   browserVars, fault, dogVars>>

\* the _smart_click calls of `for fmt in formats`, in order
FormatClicks(formats, sec) ==
    [k \in 1..Len(formats) |-> Call(_smart_click(<<formats[k], "K_button">>, Dom({})), sec)]

RECURSIVE Flat(_)
\* the events of a sequence of calls, in order
Flat(calls) == IF calls = << >> THEN << >> ELSE Head(calls).evs \o Flat(Tail(calls))

\* what executing one section did
Ran(evs, why, calls, ups, count) ==
    [evs |-> evs, why |-> why, calls |-> calls, ups |-> ups, count |-> count]

Asked(calls) == Cardinality({k \in 1..Len(calls) : calls[k].asked = 1})

\* the record of an upload for which the file was supplied
Upload(sec, before, after, d) ==
    [sec |-> sec, before |-> before, after |-> after, ret |-> d.ret]

\* publish, lines 595-608
AdaptiveText(s, sec) ==
    LET fc == FormatClicks(s.format, sec)
    IN  Ran(Flat(fc) \o _type_text(s.content) \o Flat(fc) \o _type_text(<<NL, NL>>),
            IF \E k \in 1..Len(fc) : ~fc[k].ret THEN "unresolved" ELSE None,
            fc \o fc, {}, imgCount)

\* publish, lines 610-624
AdaptiveImage(s, sec, btn, chooser, lands, imgElem, linkBtn, urlInput) ==
    IF ~s.exists THEN Ran(<< >>, "missing_file", << >>, {}, imgCount)
    ELSE LET after == IF btn /\ chooser /\ lands THEN imgCount + 1 ELSE imgCount
             up == _handle_image_upload(btn, chooser, imgCount, after)
             d == IF s.link # << >>
                  THEN _handle_image_with_link(up, s.link, imgElem, linkBtn, urlInput)
                  ELSE up
         IN  Ran(d.evs \o (IF s.caption # << >>
                           THEN _type_text(<<NL>> \o s.caption \o <<NL>>) ELSE << >>),
                 d.why, << >>,
                 IF btn /\ chooser THEN {Upload(sec, imgCount, after, up)} ELSE {},
                 after)

\* publish, lines 626-631
AdaptiveLink(s, body, textlink, urlInput) ==
    IF s.url = << >> THEN Ran(<< >>, None, << >>, {}, imgCount)
    ELSE LET d == _handle_oglink(s.url, s.text, body, textlink, urlInput)
         IN  Ran(d.evs, d.why, << >>, {}, imgCount)

\* publish, lines 633-641: quote (typed = TRUE) and divider
AdaptiveTool(s, sec, task, tool, found, typed_after) ==
    LET c == _smart_click(task, Dom(IF found THEN {} ELSE {tool}))
    IN  Ran(c.evs \o (IF typed_after THEN _type_text(s.content) \o _type_text(<<NL>>)
                      ELSE << >>),
            IF c.ret THEN None ELSE "unresolved", <<Call(c, sec)>>, {}, imgCount)

\* a plausible slip: the list is walked from its end
executed_from_the_end(r) ==
    /\ events' = events \o Tag(r.evs, Len(sections) - i)
    /\ i' = i + 1
    /\ attempted' = attempted \cup {Len(sections) - i}
    /\ failed' = IF r.why = None THEN failed
                 ELSE failed \cup {[sec |-> Len(sections) - i, why |-> r.why]}
    /\ smartCalls' = smartCalls \o r.calls
    /\ aiCalls' = aiCalls + Asked(r.calls)
    /\ uploads' = uploads \cup r.ups
    /\ imgCount' = r.count

\* the section loop shared by the two entry points: what one iteration leaves
Executed(r) ==
    /\ events' = events \o Tag(r.evs, i + 1)
    /\ i' = i + 1
    /\ attempted' = attempted \cup {i + 1}
    /\ failed' = IF r.why = None THEN failed
                 ELSE failed \cup {[sec |-> i + 1, why |-> r.why]}
    /\ smartCalls' = smartCalls \o r.calls
    /\ aiCalls' = aiCalls + Asked(r.calls)
    /\ uploads' = uploads \cup r.ups
    /\ imgCount' = r.count

\* publish, lines 591-641: one iteration of the section loop
ExecSection ==
    /\ pc = "sections" /\ impl = "adaptive" /\ i < Len(sections)
    /\ LET s == sections[i + 1] IN
       \E a \in BOOLEAN, b \in BOOLEAN, c \in BOOLEAN,
          d \in BOOLEAN, e \in BOOLEAN, f \in BOOLEAN :
         LET used == CASE s.type = "image" /\ s.exists /\ s.link # << >> ->
                              <<a, b, c, d, e, f>>
                       [] s.type = "image" /\ s.exists -> <<a, b, c>>
                       [] s.type = "oglink" -> <<a, b, c>>
                       [] s.type \in {"quote", "divider"} -> <<a>>
                       [] OTHER -> << >>
             rest == {<<a, b, c, d, e, f>>[k] : k \in (Len(used) + 1)..6}
             cost == Cardinality({k \in 1..Len(used) : ~used[k]})
         IN  /\ rest \subseteq {TRUE}
             /\ quirks + cost <= MaxQuirks
             /\ quirks' = quirks + cost
             /\ Executed(CASE s.type = "text" -> AdaptiveText(s, i + 1)
                           [] s.type = "image" -> AdaptiveImage(s, i + 1, a, b, c, d, e, f)
                           [] s.type = "oglink" -> AdaptiveLink(s, a, b, c)
                           [] s.type = "quote" ->
                                AdaptiveTool(s, i + 1, <<"K_quote", "K_button">>,
                                             "quotation", a, TRUE)
                           [] OTHER ->
                                AdaptiveTool(s, i + 1, <<"K_divider", "K_button">>,
                                             "horizontal-line", a, FALSE))
    /\ UNCHANGED <<screenshots, lifeVars, impl, title, sections, pc, state, result,
                   stages, pubClicks, urlRead, typeVars, aiVars, restVars>>

\* publish, lines 643-650: the header publish button
ClickPublish ==
    /\ pc = "sections" /\ impl = "adaptive" /\ i = Len(sections)
    /\ \E found \in BOOLEAN :
         /\ quirks + Cost(found) <= MaxQuirks
         /\ quirks' = quirks + Cost(found)
         /\ events' = events \o Tag(_click_publish_button(found).evs, 0)
         /\ pubClicks' = Append(pubClicks,
                                Click("header", found, _click_publish_button(found)))
    /\ stages' = Append(stages, "header_publish")
    /\ screenshots' = screenshots \o <<"03_content", "04_publish_panel">>
    /\ pc' = "final"
    /\ UNCHANGED <<lifeVars, impl, title, sections, i, state, result, imgCount,
                   attempted, failed, smartCalls, uploads, aiCalls, urlRead,
                   typeVars, aiVars, restVars>>

\* publish, lines 652-658: the final publish button of the panel
ClickFinalPublish ==
    /\ pc = "final" /\ impl = "adaptive"
    /\ \E found \in BOOLEAN :
         /\ quirks + Cost(found) <= MaxQuirks
         /\ quirks' = quirks + Cost(found)
         /\ events' = events \o Tag(_click_final_publish_button(found).evs, 0)
         /\ pubClicks' = Append(pubClicks,
                                Click("final", found, _click_final_publish_button(found)))
    /\ stages' = Append(stages, "final_publish")
    /\ screenshots' = Append(screenshots, "05_published")
    /\ pc' = "verify"
    /\ UNCHANGED <<lifeVars, impl, title, sections, i, state, result, imgCount,
                   attempted, failed, smartCalls, uploads, aiCalls, urlRead,
                   typeVars, aiVars, restVars>>

\* publish, lines 660-673: the page URL decides the result
VerifyUrl ==
    /\ pc = "verify" /\ impl = "adaptive"
    /\ \E current_url \in URLs :
         /\ urlRead' = current_url
         /\ result' = IF IsPublishedUrl(current_url)
                      THEN WithScreenshots(PublishResult(TRUE, current_url, None),
                                           screenshots)
                      ELSE WithScreenshots(PublishResult(FALSE, NoUrl, "url_check"),
                                           screenshots)
    /\ stages' = Append(stages, "verify")
    /\ pc' = "finally"
    /\ UNCHANGED <<screenshots, lifeVars, impl, title, sections, i, state, events, envVars,
                   attempted, failed, smartCalls, uploads, pubClicks, aiCalls,
                   typeVars, aiVars, restVars>>

\* a plausible slip: the early return of a failed login check leaves publish
\* without passing through the close
close_skipped_on_early_return ==
    /\ pc = "finally"
    /\ IF result.error_message = "login"
       THEN UNCHANGED <<browser, closes>>
       ELSE LET o == _close_browser(browser)
            IN  /\ browser' = o.browser
                /\ closes' = Append(closes, CloseCall(browser, o))
    /\ pc' = "done"
    /\ UNCHANGED <<screenshots, lifeVars, impl, title, sections, i, state, events, result,
                   envVars, histVars, typeVars, aiVars, runVars, dogVars>>

\* finally: _close_browser, after which the result is the caller's
CloseBrowser ==
    /\ pc = "finally"
    /\ LET o == _close_browser(browser)
       IN  /\ browser' = o.browser
           /\ closes' = Append(closes, CloseCall(browser, o))
    /\ pc' = "done"
    /\ UNCHANGED <<screenshots, lifeVars, impl, title, sections, i, state, events, result,
                   envVars, histVars, typeVars, aiVars, runVars, dogVars>>

(***************************************************************************)
(* publish_with_rich_content                                               *)
(***************************************************************************)
\* lines 1062-1073: the temp-save popup (dismissed by its cancel button when
\* `popup` is "dismissed"; left alone when it has no such button: "stuck")
RichPopups ==
    /\ pc = "popups" /\ impl = "rich"
    /\ \E page \in Shown :
         LET o == handle_popup(page, "temp_save") IN
         /\ quirks + Cost(page = "none") <= MaxQuirks
         /\ quirks' = quirks + Cost(page = "none")
         /\ events' = events \o Tag(IF page # "none" THEN o.evs ELSE << >>, 0)
         /\ popups' = popups \o (IF page # "none"
                                 THEN <<PopupCall("watchdog", page, o.evs, o.ret)>>
                                 ELSE << >>)
         /\ active_popup' = IF page # "none" THEN o.active ELSE active_popup
    /\ attached' = TRUE
    /\ stages' = Append(stages, "popups")
    /\ pc' = "title"
    /\ UNCHANGED <<screenshots, lifeVars, impl, title, sections, i, state, result, imgCount,
                   attempted, failed, smartCalls, uploads, pubClicks, aiCalls, urlRead,
                   typeVars, aiVars, browserVars, fault, shown, event_history,
                   dialog_history, custom_handlers, dialogs, sent>>

\* line 1076: _enter_title, which raises when there is no title element
RichTitle ==
    /\ pc = "title" /\ impl \in {"rich", "naver"}
    /\ \E how \in {"quads", "js", "none"} :
         LET o == _enter_title(title, how) IN
         /\ quirks + Cost(how = "quads") <= MaxQuirks
         /\ quirks' = quirks + Cost(how = "quads")
         /\ events' = events \o Tag(o.evs, 0)
         /\ IF o.raised
            THEN /\ screenshots' = ErrorShot(impl, screenshots, TRUE)
                 /\ result' = Except(impl, screenshots')
                 /\ pc' = "finally"
            ELSE /\ UNCHANGED <<result, screenshots>>
                 /\ pc' = "body"
    /\ stages' = Append(stages, "title")
    /\ UNCHANGED <<lifeVars, impl, title, sections, i, state, imgCount,
                   attempted, failed, smartCalls, uploads, pubClicks, aiCalls, urlRead,
                   typeVars, aiVars, restVars>>

\* line 1079: _move_to_body
RichBody ==
    /\ pc = "body" /\ impl \in {"rich", "naver"}
    /\ \E how \in {"found", "element", "fixed"}, stillTitle \in BOOLEAN :
         /\ quirks + Cost(how = "found") + Cost(~stillTitle) <= MaxQuirks
         /\ quirks' = quirks + Cost(how = "found") + Cost(~stillTitle)
         /\ events' = events \o Tag(_move_to_body(how, stillTitle), 0)
    /\ stages' = Append(stages, "sections")
    /\ pc' = "sections"
    /\ UNCHANGED <<screenshots, lifeVars, impl, title, sections, i, state, result, imgCount,
                   attempted, failed, smartCalls, uploads, pubClicks, aiCalls, urlRead,
                   typeVars, aiVars, restVars>>

\* lines 1086-1110: apply_<fmt> before and after the text; f1, f2 are the
\* answers of the two probes of the format button
RichText(s, f1, f2) ==
    LET on == IF s.format # << >> THEN _click_tool(s.format[1], f1)
              ELSE Done(<< >>, TRUE, None)
        off == IF s.format # << >> THEN _click_tool(s.format[1], f2)
               ELSE Done(<< >>, TRUE, None)
    IN  Ran(on.evs \o Naver_type_text(s.content) \o off.evs \o Naver_type_text(<<NL, NL>>),
            IF on.ret /\ off.ret THEN None ELSE "unresolved", << >>, {}, imgCount)

\* lines 1112-1127: the upload, and the caption when the upload succeeded.
\* timing: the image lands "late" (while the wait polls), "early" (before the
\* wait reads its initial count) or "never"
RichImage(s, sec, btn, input, timing) ==
    LET supplied == s.exists /\ btn /\ input
        initial_count == IF supplied /\ timing = "early" THEN imgCount + 1 ELSE imgCount
        seen_count == IF supplied /\ timing # "never" THEN imgCount + 1 ELSE imgCount
        d == upload_image(s.exists, btn, input, initial_count, seen_count)
    IN  Ran(d.evs \o (IF d.ret /\ s.caption # << >>
                      THEN Naver_type_text(<<NL>> \o s.caption \o <<NL>>) ELSE << >>),
            d.why, << >>,
            IF supplied THEN {Upload(sec, imgCount, seen_count, d)} ELSE {},
            seen_count)

\* lines 1129-1133 and 1147-1149: insert_quote / insert_divider
RichTool(s, tool, found, typed_after) ==
    LET d == _click_tool(tool, found)
    IN  Ran(d.evs \o (IF typed_after
                      THEN Naver_type_text(s.content) \o Naver_type_text(<<NL>>)
                      ELSE << >>),
            d.why, << >>, {}, imgCount)

\* lines 1135-1145
RichLink(s, fail) ==
    IF s.url = << >> THEN Ran(<< >>, None, << >>, {}, imgCount)
    ELSE LET d == insert_oglink(s.url, fail)
         IN  Ran(d.evs, d.why, << >>, {}, imgCount)

\* lines 1082-1155: one iteration of the section loop
RichSection ==
    /\ pc = "sections" /\ impl = "rich" /\ i < Len(sections)
    /\ LET s == sections[i + 1] IN
       \E a \in BOOLEAN, b \in BOOLEAN, timing \in {"late", "early", "never"},
          fail \in {"none", "button", "modal", "input", "confirm"} :
         LET used == CASE s.type = "text" /\ s.format # << >> -> <<a, b>>
                       [] s.type = "image" /\ s.exists -> <<a, b, timing = "late">>
                       [] s.type = "oglink" -> <<fail = "none">>
                       [] s.type \in {"quote", "divider"} -> <<a>>
                       [] OTHER -> << >>
             cost == Cardinality({k \in 1..Len(used) : ~used[k]})
         IN  /\ (s.type = "text" /\ s.format # << >>) \/ (s.type = "image" /\ s.exists) \/ b
             /\ (s.type = "image" /\ s.exists) \/ timing = "late"
             /\ (s.type = "image" /\ s.exists) \/ (s.type = "text" /\ s.format # << >>)
                \/ s.type \in {"quote", "divider"} \/ a
             /\ s.type = "oglink" \/ fail = "none"
             /\ quirks + cost <= MaxQuirks
             /\ quirks' = quirks + cost
             /\ Executed(CASE s.type = "text" -> RichText(s, a, b)
                           [] s.type = "image" -> RichImage(s, i + 1, a, b, timing)
                           [] s.type = "oglink" -> RichLink(s, fail)
                           [] s.type = "quote" -> RichTool(s, "quotation", a, TRUE)
                           [] OTHER -> RichTool(s, "horizontal-line", a, FALSE))
    /\ UNCHANGED <<screenshots, lifeVars, impl, title, sections, pc, state, result,
                   stages, pubClicks, urlRead, typeVars, aiVars, restVars>>

\* the stages _click_publish went through
PublishStages(header) ==
    IF header THEN <<"header_publish", "final_publish", "verify">>
    ELSE <<"header_publish">>

\* NaverPublisher.publish, lines 545-550: _check_login_status, which answers
\* False too when its probe raises; publish then returns a failure
NaverLogin ==
    /\ pc = "login" /\ impl = "naver"
    /\ \E logged_in \in BOOLEAN :
         /\ quirks + Cost(logged_in) <= MaxQuirks
         /\ quirks' = quirks + Cost(logged_in)
         /\ IF logged_in
            THEN /\ result' = result
                 /\ pc' = "popups"
            ELSE /\ result' = PublishResult(FALSE, NoUrl, "login")
                 /\ pc' = "finally"
    /\ UNCHANGED <<screenshots, lifeVars, impl, title, sections, i, state, events, imgCount, histVars,
                   typeVars, aiVars, restVars>>

\* NaverPublisher._handle_popup: how the cancel button of the temp-save popup
\* was clicked ("quads": by _click_at, "js": by element.click(), "none": no
\* popup, or an error the bare except swallowed)
_handle_popup(how) == IF how = "quads" THEN Naver_click_at(At("popup-cancel")) ELSE << >>

\* NaverPublisher.publish, lines 555-558: _handle_popup, _discover_tool_positions
NaverPopups ==
    /\ pc = "popups" /\ impl = "naver"
    /\ \E how \in {"quads", "js", "none"} :
         /\ quirks + Cost(how = "none") <= MaxQuirks
         /\ quirks' = quirks + Cost(how = "none")
         /\ events' = events \o Tag(_handle_popup(how), 0)
    /\ stages' = Append(stages, "popups")
    /\ pc' = "title"
    /\ UNCHANGED <<screenshots, lifeVars, impl, title, sections, i, state, result, imgCount,
                   attempted, failed, smartCalls, uploads, pubClicks, aiCalls, urlRead,
                   typeVars, aiVars, restVars>>

\* NaverPublisher._enter_content: one paragraph, and the blank line after it
\* unless it is the last
NaverParagraph ==
    /\ pc = "sections" /\ impl = "naver" /\ i < Len(sections)
    /\ Executed(Ran(Naver_type_text(sections[i + 1].content)
                    \o (IF i + 1 < Len(sections) THEN Naver_type_text(<<NL, NL>>)
                        ELSE << >>),
                    None, << >>, {}, imgCount))
    /\ UNCHANGED <<screenshots, lifeVars, impl, title, sections, pc, state, result, quirks,
                   stages, pubClicks, urlRead, typeVars, aiVars, restVars>>

\* lines 1157-1165: _click_publish and the result built from the URL it returned
RichPublish ==
    /\ pc = "sections" /\ impl \in {"rich", "naver"} /\ i = Len(sections)
    /\ \E header \in BOOLEAN, final \in BOOLEAN, url1 \in URLs, waited \in BOOLEAN :
         LET p == Naver_click_publish(header, final, url1, waited) IN
         \* answers that are never asked for are not varied
         /\ header \/ (final /\ url1 = PostViewUrl)
         /\ (url1 # WriteUrl) => ~waited
         /\ quirks + Cost(header) + Cost(final) <= MaxQuirks
         /\ quirks' = quirks + Cost(header) + Cost(final)
         /\ events' = events \o Tag(p.evs, 0)
         /\ pubClicks' = pubClicks
                         \o <<Click("header", header,
                                    IF header THEN p.header
                                    ELSE Done(p.evs, p.url # NoUrl, None))>>
                         \o (IF header THEN <<Click("final", final, p.final)>> ELSE << >>)
         /\ urlRead' = p.read
         /\ result' = IF impl = "naver"
                      THEN WithScreenshots(
                               PublishResult(p.url # NoUrl, p.url,
                                             IF p.url = NoUrl THEN "no_url" ELSE None),
                               screenshots)
                      ELSE PublishResult(p.url # NoUrl, p.url, None)
         /\ stages' = stages \o PublishStages(header)
    /\ pc' = "finally"
    /\ UNCHANGED <<screenshots, lifeVars, impl, title, sections, i, state, imgCount,
                   attempted, failed, smartCalls, uploads, aiCalls, typeVars, aiVars, restVars>>

Next ==
    \/ Connect \/ ConnectFail \/ Navigate \/ Raise
    \/ DismissPopups \/ EnterTitle \/ MoveToBody \/ ExecSection
    \/ ClickPublish \/ ClickFinalPublish \/ VerifyUrl
    \/ RichPopups \/ RichTitle \/ RichBody \/ RichSection \/ RichPublish
    \/ NaverLogin \/ NaverPopups \/ NaverParagraph
    \/ CloseBrowser

Spec == Init /\ [][Next]_vars

(***************************************************************************)
(* AI runs: the AI step of the resolution chain on its own.  The service's *)
(* answer is drawn from Responses; _analyze_current_state asks with        *)
(* use_ai set, and lines 509-517 of _smart_click act on the decision.      *)
(***************************************************************************)
InitAI ==
    /\ impl = "adaptive"
    /\ pc = "ask"
    /\ response \in Responses
    /\ decision = EmptyDecision /\ ret = FALSE /\ raised = FALSE
    /\ events = << >>
    /\ aiCalls = 0
    /\ NoPublish /\ NoTyping /\ NoRun /\ NoDog

AskAI ==
    /\ pc = "ask"
    /\ LET st == _analyze_current_state(<<"K_body", "K_area", "K_click">>, TRUE,
                                        Dom({}), response)
       IN  /\ decision' = st.ai_decision
           /\ aiCalls' = aiCalls + st.asked
    /\ pc' = "decide"
    /\ UNCHANGED <<screenshots, lifeVars, impl, title, sections, i, state, events, result, envVars,
                   stages, attempted, failed, smartCalls, uploads, pubClicks, urlRead,
                   typeVars, response, ret, raised, restVars>>

Decide ==
    /\ pc = "decide"
    /\ LET out == SmartClickDecide(decision)
       IN  /\ events' = events \o Tag(out.evs, 0)
           /\ ret' = out.ret
           /\ raised' = out.raised
    /\ pc' = "decided"
    /\ UNCHANGED <<screenshots, lifeVars, impl, title, sections, i, state, result, envVars, histVars,
                   typeVars, response, decision, restVars>>

NextAI == AskAI \/ Decide

SpecAI == InitAI /\ [][NextAI]_vars

(***************************************************************************)
(* Properties.                                                             *)
(***************************************************************************)
StagesEntered == {stages[k] : k \in 1..Len(stages)}

\* C2: when executing a section fails, every later section is still attempted
\* and the run goes on to the publish step.
C2_LaterSectionsAttempted ==
    (pc = "done" /\ failed # {}) =>
        /\ attempted = 1..Len(sections)
        /\ "header_publish" \in StagesEntered

\* the failure is named by the message of the result
Reported(f, msg) == f.why = "raised" /\ msg = "exception"

\* C3: every section-level failure of the run appears in the error_message of
\* the PublishResult returned, also when the result has success = TRUE.
C3_FailuresReported ==
    result.returned => \A f \in failed : Reported(f, result.error_message)

\* the published-post pattern, read off the URL itself
MatchesPattern(url) ==
    \E k \in 1..Len(url) : url[k] \in {"PostView.naver", "logNo=1"}

\* C4: the result has success = TRUE only if the URL read after the final
\* publish step matches the published-post pattern; whatever the earlier steps
\* did, a URL that does not match gives success = FALSE and no blog_url.
C4_SuccessOnlyOnMatchingUrl ==
    result.returned =>
        /\ result.success => (MatchesPattern(urlRead) /\ result.blog_url = urlRead)
        /\ ~MatchesPattern(urlRead) => (~result.success /\ result.blog_url = NoUrl)

\* a run in which a section failed, which ended on a URL of the published post
C4_Witness ==
    /\ pc = "done" /\ result.success /\ urlRead = LogNoUrl
    /\ failed # {}

\* the toolbar controls the task's words stand for
ControlsOf(task) ==
    { task_to_dom_key[j][2] : j \in { n \in 1..Len(task_to_dom_key) :
                                        InTask(task_to_dom_key[n][1], task) } }

\* C5: a _smart_click call whose snapshot lookup finds the control never asks
\* the AI service, and dispatches exactly one click (moved, pressed, released),
\* at the coordinates the snapshot gave for that control.
C5_SnapshotHitClicksOnce ==
    \A k \in 1..Len(smartCalls) :
        smartCalls[k].found =>
            /\ smartCalls[k].asked = 0
            /\ smartCalls[k].ret
            /\ \E tool \in ControlsOf(smartCalls[k].task) :
                 smartCalls[k].evs = << MouseEvent("mouseMoved", At(tool)),
                                        MouseEvent("mousePressed", At(tool)),
                                        MouseEvent("mouseReleased", At(tool)) >>

\* a finished run in which a _smart_click call found its control in the snapshot
C5_Witness ==
    /\ pc = "done"
    /\ \E k \in 1..Len(smartCalls) :
         smartCalls[k].found /\ smartCalls[k].task = <<"K_divider", "K_button">>

\* C6: a _smart_click call whose lookup does not resolve the intent sends the
\* snapshot and the task to the AI service, and executes the directive it
\* returns when that has can_proceed = true (here: a click at the point the
\* service names).
C6_FallbackAsksAI ==
    \A k \in 1..Len(smartCalls) :
        ~smartCalls[k].found =>
            /\ smartCalls[k].asked = 1
            /\ smartCalls[k].evs = << MouseEvent("mouseMoved", At("ai")),
                                      MouseEvent("mousePressed", At("ai")),
                                      MouseEvent("mouseReleased", At("ai")) >>

\* the field is there and not null
Given(v) == v # Absent /\ v # Null

\* the response is a directive that may be executed: JSON that parsed to an
\* object with can_proceed true, whose action carries what its type requires
Executable(resp) ==
    /\ resp.status = "200" /\ resp.body = "object" /\ resp.can_proceed = "true"
    /\ resp.next_action.type = "click" => Given(resp.next_action.coords)
    /\ resp.next_action.type = "input" =>
         (Given(resp.next_action.coords) /\ Given(resp.next_action.value))

\* the cases the claim lists as rejected
Rejected(resp) ==
    \/ resp.status # "200"
    \/ resp.body = "malformed"
    \/ resp.body = "object" /\ resp.can_proceed = "false"
    \/ /\ resp.body = "object" /\ resp.next_action.kind = "object"
       /\ \/ resp.next_action.type = "click" /\ ~Given(resp.next_action.coords)
          \/ /\ resp.next_action.type = "input"
             /\ ~(Given(resp.next_action.coords) /\ Given(resp.next_action.value))

C8_NoHeaderNoClick ==
    \A k \in 1..Len(pubClicks) :
        (pubClicks[k].step = "header" /\ ~pubClicks[k].found) =>
            /\ ~pubClicks[k].ret
            /\ \A n \in 1..Len(pubClicks[k].evs) : pubClicks[k].evs[n].dev # "mouse"

\* a rich-content run finished in which the header publish button was not found
C8_Witness ==
    /\ pc = "done" /\ impl = "rich"
    /\ \E k \in 1..Len(pubClicks) : pubClicks[k].step = "header" /\ ~pubClicks[k].found

AllStages ==
    <<"navigation", "popups", "title", "sections", "header_publish", "final_publish",
      "verify">>

\* the input events of the sections go out in the order of the caller's list
SectionOrder ==
    \A j \in 1..Len(events) : \A k \in j..Len(events) :
        (events[j].sec > 0 /\ events[k].sec > 0) => events[j].sec <= events[k].sec

C10_SuccessOnlyIfCountIncreased ==
    \A u \in uploads :
        /\ u.ret => u.after > u.before
        /\ u.after <= u.before => ~u.ret

\* the kinds of section whose control or upload can fail
SkippedKinds == {"text", "quote", "divider", "image"}

\* C11: when the control a section needs is not resolved or its upload fails,
\* nothing of the section is typed: no char event is dispatched for it.
C11_FailedSectionNotTyped ==
    \A f \in failed :
        (f.why \in {"unresolved", "upload"} /\ sections[f.sec].type \in SkippedKinds) =>
            \A k \in 1..Len(events) : events[k].sec = f.sec => events[k].ev.type # "char"

(***************************************************************************)
(* Watchdog runs: a PopupWatchdog is attached, the caller registers        *)
(* overrides, the page opens dialogs.                                      *)
(***************************************************************************)
MaxDialogs == 2     \* most dialog events delivered in a watchdog run
MaxOverrides == 1   \* most set_handler calls in a watchdog run

Overrides == Cardinality({t \in DialogTypes : custom_handlers[t].set})

InitDog ==
    /\ impl = "rich"
    /\ pc = "watching"
    /\ events = << >>
    /\ aiCalls = 0
    /\ NoPublish /\ NoTyping /\ NoAI /\ NoRun /\ NoDog

MaxAttaches == 2    \* most attach calls that register a handler in a watchdog run

\* BaseWatchdog.attach: the handler of Page.javascriptDialogOpening is registered
\* with cdp.on
Attach ==
    /\ pc = "watching"
    /\ ~attached
    /\ listeners < MaxAttaches
    /\ attached' = TRUE
    /\ listeners' = listeners + 1
    /\ UNCHANGED <<screenshots, opened, progVars, envVars, histVars, typeVars, aiVars, browserVars, runVars,
                   shown, event_history, dialog_history, custom_handlers, active_popup,
                   dialogs, sent>>

\* PopupWatchdog.set_handler(dialog_type, handler)
SetHandler ==
    /\ pc = "watching"
    /\ Overrides < MaxOverrides
    /\ \E t \in DialogTypes, h \in Handlers :
         /\ ~custom_handlers[t].set
         /\ custom_handlers' = [custom_handlers EXCEPT ![t] = h]
    /\ UNCHANGED <<screenshots, lifeVars, progVars, envVars, histVars, typeVars, aiVars, browserVars, runVars,
                   shown, attached, event_history, dialog_history, active_popup,
                   dialogs, sent>>

\* the page opens a dialog: wrapped_handler records the event and calls
\* on_Page_javascriptDialogOpening, which records the dialog and answers it
DialogOpens ==
    /\ pc = "watching"
    /\ attached
    /\ Len(dialogs) < MaxDialogs
    /\ \E event \in DialogEvents :
         /\ event_history' = Append(event_history,
                                    [event |-> "Page.javascriptDialogOpening",
                                     params |-> event])
         /\ dialog_history' = Append(dialog_history,
                                     [type |-> TypeOf(event),
                                      default_prompt |-> event.default_prompt])
         /\ sent' = Append(sent, DialogParams(event, custom_handlers))
         /\ dialogs' = Append(dialogs, [event |-> event,
                                        override |-> custom_handlers[TypeOf(event)]])
    /\ UNCHANGED <<screenshots, lifeVars, progVars, envVars, histVars, typeVars, aiVars, browserVars, runVars,
                   shown, attached, custom_handlers, active_popup>>

NextDog == Attach \/ SetHandler \/ DialogOpens

SpecDog == InitDog /\ [][NextDog]_vars

C15_HistoryBounded ==
    /\ Len(event_history) < MaxDialogs
    /\ Len(dialog_history) < MaxDialogs

(***************************************************************************)
(* Popup runs: the editor page shows and hides the temp-save popup while   *)
(* the two dismissal routines are called, any number of times in any       *)
(* order.                                                                  *)
(***************************************************************************)
MaxCalls == 4   \* most dismissal calls in a popup run

InitPopup ==
    /\ impl \in {"adaptive", "rich"}
    /\ pc = "editor"
    /\ events = << >>
    /\ aiCalls = 0
    /\ NoPublish /\ NoTyping /\ NoAI /\ NoRun /\ NoDog

\* the page opens the temp-save popup
PopupAppears ==
    /\ pc = "editor"
    /\ shown = "none"
    /\ Len(popups) < MaxCalls
    /\ shown' \in {"temp_save", "temp_save_no_cancel"}
    /\ UNCHANGED <<screenshots, lifeVars, progVars, envVars, histVars, typeVars, aiVars, browserVars, runVars,
                   attached, event_history, dialog_history, custom_handlers, active_popup,
                   dialogs, sent>>

\* EditorPopupWatchdog.dismiss_temp_save_popup; the page may or may not close
\* the popup when its cancel button is clicked
WatchdogDismiss ==
    /\ pc = "editor" /\ impl = "rich"
    /\ Len(popups) < MaxCalls
    /\ LET o == handle_popup(shown, active_popup)
       IN  /\ events' = events \o Tag(o.evs, 0)
           /\ popups' = Append(popups, PopupCall("watchdog", shown, o.evs, o.ret))
           /\ active_popup' = o.active
           /\ shown' \in (IF o.ret THEN {"none", shown} ELSE {shown})
    /\ UNCHANGED <<screenshots, lifeVars, impl, title, sections, pc, i, state, result, envVars, histVars, typeVars,
                   aiVars, browserVars, fault, attached, event_history, dialog_history,
                   custom_handlers, dialogs, sent>>

\* AdaptivePublisher._dismiss_temp_save_popup
AdaptiveDismiss ==
    /\ pc = "editor" /\ impl = "adaptive"
    /\ Len(popups) < MaxCalls
    /\ LET o == _dismiss_temp_save_popup(shown = "temp_save")
       IN  /\ events' = events \o Tag(o.evs, 0)
           /\ popups' = Append(popups, PopupCall("adaptive", shown, o.evs, o.ret))
           /\ shown' \in (IF o.ret THEN {"none", shown} ELSE {shown})
    /\ UNCHANGED <<screenshots, lifeVars, impl, title, sections, pc, i, state, result, envVars, histVars, typeVars,
                   aiVars, browserVars, fault, attached, event_history, dialog_history,
                   custom_handlers, active_popup, dialogs, sent>>

NextPopup == PopupAppears \/ WatchdogDismiss \/ AdaptiveDismiss

SpecPopup == InitPopup /\ [][NextPopup]_vars

RECURSIVE EventsOf(_)
\* the input events of a sequence of dismissal calls, in order
EventsOf(calls) ==
    IF calls = << >> THEN << >> ELSE calls[1].evs \o EventsOf(Tail(calls))

\* C13: a dismissal called while no popup is shown returns False and
\* dispatches no input event, whatever calls came before it; the events
\* dispatched are exactly those of the calls that found a popup with its button.
C13_DismissWithoutPopupIsNoOp ==
    /\ \A k \in 1..Len(popups) :
         popups[k].shown = "none" => ~popups[k].ret /\ popups[k].evs = << >>
    /\ Len(events) = Len(EventsOf(popups))
    /\ \A k \in 1..Len(events) : events[k].ev = EventsOf(popups)[k]
    /\ \A k \in 1..Len(popups) : popups[k].evs # << >> => popups[k].shown = "temp_save"

\* a successful dismissal, then two calls on the page without a popup
C13_Witness ==
    /\ Len(popups) = 3
    /\ popups[1].shown = "temp_save" /\ popups[1].ret
    /\ popups[2].shown = "none" /\ ~popups[2].ret
    /\ popups[3].shown = "none" /\ ~popups[3].ret
    /\ Len(events) = 3

\* C14: when a dismissal call of a publish run found the popup but not its
\* button, the run presses Escape in that stage.
C14_EscapeWhenButtonMissing ==
    (\E k \in 1..Len(popups) : popups[k].shown = "temp_save_no_cancel") =>
        \E e \in 1..Len(events) :
            /\ events[e].sec = 0
            /\ events[e].ev.type = "keyDown" /\ events[e].ev.key = "Escape"

\* C16: every click is mouseMoved, mousePressed, mouseReleased in that order at
\* one coordinate with no other event between: each mousePressed of the log
\* directly follows a mouseMoved and directly precedes a mouseReleased at its
\* own coordinate.
C16_ClickIsMovePressRelease ==
    \A k \in 1..Len(events) :
        events[k].ev.type = "mousePressed" =>
            /\ k > 1 /\ k < Len(events)
            /\ events[k - 1].ev.type = "mouseMoved"
            /\ events[k - 1].ev.pt = events[k].ev.pt
            /\ events[k + 1].ev.type = "mouseReleased"
            /\ events[k + 1].ev.pt = events[k].ev.pt

(***************************************************************************)
(* Browser runs: a publisher's browser is initialised, the connection may  *)
(* drop, and _close_browser is called at any moment, any number of times.  *)
(***************************************************************************)
MaxCloses == 3   \* most _close_browser calls in a browser run

InitClose ==
    /\ impl \in {"adaptive", "naver"}
    /\ pc = "idle"
    /\ events = << >>
    /\ aiCalls = 0
    /\ NoPublish /\ NoTyping /\ NoAI /\ NoRun /\ NoDog

\* _init_browser / _init_browser_cdp, on a new publisher or after a close
InitBrowser ==
    /\ pc = "idle"
    /\ browser.playwright # "started"
    /\ \E reachable \in (IF browser.link = "up" THEN BOOLEAN ELSE {FALSE}) :
         browser' = _init_browser([browser EXCEPT !.page = "none"], reachable)
    /\ UNCHANGED <<screenshots, lifeVars, progVars, envVars, histVars, typeVars, aiVars, closes, runVars, dogVars>>

\* the browser goes away, or the connection to it drops
LinkDrops ==
    /\ pc = "idle"
    /\ browser.link = "up"
    /\ browser' = [browser EXCEPT !.link = "down"]
    /\ UNCHANGED <<screenshots, lifeVars, progVars, envVars, histVars, typeVars, aiVars, closes, runVars, dogVars>>

\* _close_browser, in whatever state the publisher is
Close ==
    /\ pc = "idle"
    /\ Len(closes) < MaxCloses
    /\ LET o == _close_browser(browser)
       IN  /\ browser' = o.browser
           /\ closes' = Append(closes, CloseCall(browser, o))
    /\ UNCHANGED <<screenshots, lifeVars, progVars, envVars, histVars, typeVars, aiVars, runVars, dogVars>>

NextClose == InitBrowser \/ LinkDrops \/ Close

SpecClose == InitClose /\ [][NextClose]_vars

\* C18: _close_browser raises in no state, and a second call right after a
\* first leaves the publisher as the first left it.
C18_CloseNeverRaisesAndIsIdempotent ==
    /\ \A k \in 1..Len(closes) : ~closes[k].raised
    /\ \A k \in 1..Len(closes) - 1 :
         closes[k + 1].before = closes[k].after =>
             closes[k + 1].after = closes[k].after

\* closed before any initialisation, closed after a failed connection, and
\* closed again right after that
C18_Witness ==
    /\ Len(closes) = 3
    /\ closes[1].before = NewBrowser
    /\ closes[2].before = _init_browser(NewBrowser, FALSE)
    /\ closes[2].after.playwright = "stopped"
    /\ closes[3].before = closes[2].after
    /\ closes[3].after = closes[2].after

\* C19: when the browser cannot be reached, publish returns success = false
\* with the connection error, having navigated nowhere, dispatched no input
\* event and executed no section.
C19_NoBrowserAbortsAtOnce ==
    result.error_message = "connection" =>
        /\ result.returned /\ ~result.success /\ result.blog_url = NoUrl
        /\ stages = << >> /\ events = << >>
        /\ attempted = {} /\ i = 0
        /\ smartCalls = << >> /\ pubClicks = << >>
        /\ browser.page = "none"

\* the run with an unreachable browser has returned
C19_Witness ==
    /\ pc = "done"
    /\ result.error_message = "connection"
    /\ sections # << >>

\* C17: a publish call that has returned, with whatever outcome, has called
\* _close_browser, once and after its result was fixed; while it runs it has
\* not closed the browser.
C17_ClosedBeforeReturn ==
    /\ pc = "done" => result.returned /\ Len(closes) = 1 /\ ~closes[1].raised
    /\ pc \in {"start", "navigate", "login", "popups", "title", "body", "sections",
               "final", "verify", "finally"} => closes = << >>

\* NaverPublisher.publish returned from inside its try because the login
\* check failed, and the browser it had opened was closed
C17_Witness ==
    /\ pc = "done" /\ impl = "naver"
    /\ result.error_message = "login"
    /\ Len(closes) = 1
    /\ closes[1].before.page = "open" /\ closes[1].after.page = "closed"

\* C20: when a script evaluation of AdaptivePublisher raised, it was issued a
\* second time, and the run was not aborted by it.
C20_EvaluationRetried ==
    (impl = "adaptive" /\ fault.call = "evaluate") =>
        /\ fault.tries = 2
        /\ result.error_message # "exception"

\* the clicks of AdaptivePublisher.publish whose coordinates are read from the
\* snapshot kept in `state`: positions of their mousePressed in the log
SnapshotClicks ==
    {k \in 1..Len(events) :
        /\ impl = "adaptive" /\ events[k].sec = 0
        /\ events[k].ev.type = "mousePressed"
        /\ \/ state.title /\ events[k].ev.pt = At("title")
           \/ state.body /\ events[k].ev.pt = At("body")}

\* C21: a click on a resolved element uses a snapshot taken after the most
\* recent input action: between the snapshot and the click's own mouseMoved no
\* input event was dispatched.
C21_SnapshotFreshAtClick ==
    \A k \in SnapshotClicks : k = state.at + 2

\* the orchestrator state transitions a returned run went through: the stages
\* it entered, but for the one an exception ended
Transitions ==
    IF result.error_message = "exception" THEN Len(stages) - 1 ELSE Len(stages)

\* C22: the screenshots of a returned PublishResult are one for each state
\* transition the run went through, whatever the outcome.
C22_ScreenshotPerTransition ==
    result.returned => Len(result.screenshots) = Transitions

\* positions in the log of the link executor's clicks on the link control
LinkControlClicks ==
    {k \in 1..Len(events) :
        /\ impl = "adaptive" /\ events[k].sec > 0
        /\ sections[events[k].sec].type = "oglink"
        /\ events[k].ev.type = "mousePressed" /\ events[k].ev.pt = At("text-link")}

\* C23: in the link executor the link text is typed, then selected again by a
\* step of its own, and only then is the link control clicked: before each
\* click on the link control the section has a selecting key event (one with a
\* modifier) that follows a typed character.
C23_LinkTextReselected ==
    \A k \in LinkControlClicks :
        \E c \in 1..k, j \in 1..k :
            /\ c < j
            /\ events[c].sec = events[k].sec /\ events[c].ev.type = "char"
            /\ events[j].sec = events[k].sec /\ events[j].ev.dev = "key"
            /\ events[j].ev.mod # 0

\* the sections AdaptivePublisher.publish ran the image-with-link executor for
LinkedImages ==
    {sec \in attempted :
        /\ impl = "adaptive" /\ sections[sec].type = "image"
        /\ sections[sec].exists /\ sections[sec].link # << >>}

\* positions in the log of section sec's presses at pt, and of its events of a type
PressesAt(sec, pt) ==
    {k \in 1..Len(events) :
        events[k].sec = sec /\ events[k].ev.type = "mousePressed" /\ events[k].ev.pt = pt}

OfType(sec, type, key) ==
    {k \in 1..Len(events) :
        events[k].sec = sec /\ events[k].ev.type = type /\ events[k].ev.key = key}

Typed(sec) == {k \in 1..Len(events) : events[k].sec = sec /\ events[k].ev.type = "char"}

FormattedTexts ==
    {sec \in attempted :
        /\ sections[sec].type = "text" /\ sections[sec].format # << >>
        /\ [sec |-> sec, why |-> "raised"] \notin failed}

\* C25: executing a text section with a format list clicks each listed format
\* control once before the content is typed and once after it: two clicks per
\* control, with typed characters between them.
C25_FormatToggledAroundText ==
    \A sec \in FormattedTexts :
        \A f \in 1..Len(sections[sec].format) :
            LET presses == PressesAt(sec, At(sections[sec].format[f])) IN
            /\ Cardinality(presses) = 2
            /\ \E a \in presses, b \in presses, t \in Typed(sec) : a < t /\ t < b

\* C26: in AdaptivePublisher.publish a click on the final publish button is
\* dispatched only after a click on the header publish button was dispatched.
C26_FinalClickOnlyAfterHeaderClick ==
    impl = "adaptive" =>
        \A j \in 1..Len(pubClicks) :
            (pubClicks[j].step = "final" /\ pubClicks[j].evs # << >>) =>
                \E k \in 1..j : pubClicks[k].step = "header" /\ pubClicks[k].evs # << >>

\* positions in the log of the characters typed outside the sections: the title
TitleChars == {k \in 1..Len(events) : events[k].sec = 0 /\ events[k].ev.type = "char"}

\* C27: the title is typed only after a click on the resolved title region was
\* dispatched: every character of the title follows a press that is not one
\* of the popup dismissals.
C27_TitleTypedOnlyAfterClick ==
    \A t \in TitleChars :
        \E k \in 1..t :
            /\ events[k].sec = 0 /\ events[k].ev.type = "mousePressed"
            /\ events[k].ev.pt # At("popup-cancel")

\* C28: ImageHandler reports success whenever the file it injected made the
\* editor's image count rise by one before the timeout, at whatever moment the
\* page added the component.
C28_UploadSeenWheneverCountRose ==
    impl = "rich" =>
        \A u \in uploads : u.after >= u.before + 1 => u.ret

(***************************************************************************)
(* Watchdog lifecycle runs: attach and detach in any order, overrides that *)
(* raise, and dialog events raised by the page at any moment.  An event is *)
(* delivered to every handler registered with cdp.on.                      *)
(***************************************************************************)
\* BaseWatchdog.detach: _handlers is cleared and _attached reset; nothing is
\* removed from the CDP session
Detach ==
    /\ pc = "watching"
    /\ attached
    /\ attached' = FALSE
    /\ UNCHANGED <<screenshots, lifeVars, progVars, envVars, histVars, typeVars, aiVars,
                   browserVars, runVars, shown, event_history, dialog_history,
                   custom_handlers, active_popup, dialogs, sent>>

\* PopupWatchdog.set_handler with a handler that raises
SetRaisingHandler ==
    /\ pc = "watching"
    /\ Overrides < MaxOverrides
    /\ \E t \in DialogTypes :
         /\ ~custom_handlers[t].set
         /\ custom_handlers' = [custom_handlers EXCEPT ![t] = RaisingHandler]
    /\ UNCHANGED <<screenshots, lifeVars, progVars, envVars, histVars, typeVars, aiVars,
                   browserVars, runVars, shown, attached, event_history, dialog_history,
                   active_popup, dialogs, sent>>

RECURSIVE Times(_, _)
\* n copies of x
Times(x, n) == IF n = 0 THEN << >> ELSE <<x>> \o Times(x, n - 1)

\* the page raises a dialog event: each registered wrapped_handler records it
\* and calls on_Page_javascriptDialogOpening, which records the dialog, asks the
\* override if there is one, and sends its answer unless the override raised
DialogRaised ==
    /\ pc = "watching"
    /\ Len(opened) < MaxDialogs
    /\ \E event \in DialogEvents :
         LET override == custom_handlers[TypeOf(event)]
             answers == IF override.raises THEN 0 ELSE listeners
         IN
         /\ event_history' = event_history
                \o Times([event |-> "Page.javascriptDialogOpening", params |-> event],
                         listeners)
         /\ dialog_history' = dialog_history
                \o Times([type |-> TypeOf(event),
                          default_prompt |-> event.default_prompt], listeners)
         /\ sent' = sent \o Times(DialogParams(event, custom_handlers), answers)
         /\ dialogs' = dialogs \o Times([event |-> event, override |-> override], answers)
         /\ opened' = Append(opened, [event |-> event, attached |-> attached,
                                      handled |-> listeners, answers |-> answers])
    /\ UNCHANGED <<screenshots, listeners, progVars, envVars, histVars, typeVars, aiVars,
                   browserVars, runVars, shown, attached, custom_handlers, active_popup>>

NextLife == Attach \/ Detach \/ SetRaisingHandler \/ DialogRaised

SpecLife == InitDog /\ [][NextLife]_vars

\* C29: a dialog event raised while the watchdog is attached is answered by a
\* Page.handleJavaScriptDialog, also when the override for its type raises.
\* (An event is answered within its handler or never: no later step answers it.)
C29_AttachedDialogAnswered ==
    \A k \in 1..Len(opened) : opened[k].attached => opened[k].answers >= 1

\* C30: the handlers registered for the dialog event are one while the
\* watchdog is attached and none while it is detached, and each dialog event
\* was handled once if the watchdog was attached and not at all if it was not.
C30_OneRegistrationWhileAttached ==
    /\ listeners = (IF attached THEN 1 ELSE 0)
    /\ \A k \in 1..Len(opened) :
         /\ opened[k].handled = (IF opened[k].attached THEN 1 ELSE 0)
         /\ opened[k].answers <= 1

====
